---- MODULE Spec2Model ----
(***************************************************************************)
(* Devonika: the iterative build loop (DevonikaEngine), the task scheduler *)
(* and the progress store (ProjectManager) and the repair step             *)
(* (AutoDebugger), as a state machine.                                     *)
(*                                                                         *)
(* Ids and paths are strings.  A task of the plan is referred to by its    *)
(* position in plan.tasks; position 0 stands for Python's None.            *)
(* Confidence values are tenths (0.6 is 6).  A dict is a function whose    *)
(* DOMAIN is its key set.                                                  *)
(***************************************************************************)
EXTENDS Integers, Sequences, FiniteSets, TLC

VARIABLES
    plan,               \* project_plan: [components, tasks]
    config,             \* self.config: max_iterations, auto_test, auto_fix_errors
    iteration,          \* the loop counter of _iterative_development_loop
    completion_status,  \* the completion tracker: component id -> BOOLEAN
    codebase,           \* the artifact mapping: path -> content
    next_task,          \* position of the scheduled task in plan.tasks, 0 = None
    task_result,        \* the "completed" entry of the execution result
    test_results,       \* the "passed" entry of the test result
    errors,             \* debug_and_fix: the extracted errors
    fixes,              \* debug_and_fix: the accepted fixes, in order
    err_idx,            \* debug_and_fix: position of `for error in errors`
    llm_response,       \* _analyze_and_fix_error: the response just received
    debug_result,       \* what debug_and_fix returned to the loop
    progress_file,      \* .devonika/progress.json
    now,                \* datetime.now(), a logical clock
    pc,                 \* position of the build in its code
    result,             \* the value build_project, get_project_status or the
                        \* status command returns
    exit_reason,        \* which exit the loop took (it only logs it)
    loop_steps,         \* evaluations of the while condition
    n_dispatch,         \* dispatches of the execution collaborator
    n_collab,           \* dispatches of any collaborator (execute, test, repair)
    raised,             \* the exception build_project caught, if any
    sched_prev,         \* the previous call of get_next_task: tracker and answer
    load_result         \* what an out-of-process reader's load_progress returned

vars == << plan, config, iteration, completion_status, codebase, next_task,
           task_result, test_results, errors, fixes, err_idx, llm_response,
           debug_result, progress_file, now, pc, result, exit_reason, loop_steps, n_dispatch,
           n_collab, raised, sched_prev, load_result >>

----------------------------------------------------------------------------
(* Bounds of the model *)

MaxIter == 3          \* max_iterations ranges over 0..MaxIter
MaxLines == 2         \* lines of a test output
MaxTasks == 2         \* tasks of a generated plan (scheduler specification)
MaxSaves == 2         \* calls of save_progress (store operations)
MaxOutput == 6        \* lines of a test output (debug attempt on its own)

(* Program constants *)

ErrorLimit == 5       \* errors[:5]
ConfThreshold == 6    \* fix.get("confidence", 0) > 0.6, in tenths
DefaultComplexity == 5
DefaultConfidence == 0

----------------------------------------------------------------------------
(* Dicts *)

EmptyMap == << >>

\* d.get(k, False) on the tracker
Get(d, k) == IF k \in DOMAIN d THEN d[k] ELSE FALSE

\* a faulty variant: a path the mapping already holds keeps its content
UpdateKeepOld(d, other) ==
    [k \in (DOMAIN d) \cup (DOMAIN other) |->
        IF k \in DOMAIN d THEN d[k] ELSE other[k]]

\* d.update(other)
Update(d, other) ==
    [k \in (DOMAIN d) \cup (DOMAIN other) |->
        IF k \in DOMAIN other THEN other[k] ELSE d[k]]

\* d[k] = v
Put(d, k, v) == [x \in (DOMAIN d) \cup {k} |-> IF x = k THEN v ELSE d[x]]

Range(s) == { s[i] : i \in DOMAIN s }

----------------------------------------------------------------------------
(* Plans *)

NoComplexity == -1    \* the task has no "estimated_complexity" entry

Task(id, cid, prio, cx, pre) ==
    [id |-> id, component_id |-> cid, priority |-> prio,
     estimated_complexity |-> cx, prerequisites |-> pre]

Plan(comps, tasks) == [components |-> comps, tasks |-> tasks]

\* Scenario A: three independent components, one task each
PlanIndep3 == Plan(<<"c1", "c2", "c3">>,
    << Task("t1", "c1", "medium", 5, << >>),
       Task("t2", "c2", "medium", 5, << >>),
       Task("t3", "c3", "medium", 5, << >>) >>)

\* two independent components
PlanIndep2 == Plan(<<"c1", "c2">>,
    << Task("t1", "c1", "high", 3, << >>),
       Task("t2", "c2", "low", 3, << >>) >>)

\* Scenario B: the first task waits for the second; the prerequisite is
\* given once as the id the tracker knows and once as a task id
PlanChain == Plan(<<"c1", "c2">>,
    << Task("t1", "c1", "medium", 5, <<"c2">>),
       Task("t2", "c2", "medium", 5, << >>) >>)

PlanChainTaskId == Plan(<<"c1", "c2">>,
    << Task("t1", "c1", "low", 5, <<"t2">>),
       Task("t2", "c2", "high", 5, << >>) >>)

\* Scenario C: a prerequisite cycle; high/8 before high/1 in plan order
PlanCycle == Plan(<<"c1", "c2">>,
    << Task("t1", "c1", "high", 8, <<"c2">>),
       Task("t2", "c2", "high", 1, <<"c1">>) >>)

\* a dangling prerequisite and a task of a component the plan does not list
PlanDangling == Plan(<<"c1">>,
    << Task("t1", "c1", "none", NoComplexity, <<"ghost">>),
       Task("t2", "cX", "urgent", 2, << >>) >>)

\* Scenario E: five components, one task each
PlanFive == Plan(<<"c1", "c2", "c3", "c4", "c5">>,
    << Task("t1", "c1", "medium", 5, << >>),
       Task("t2", "c2", "medium", 5, << >>),
       Task("t3", "c3", "medium", 5, << >>),
       Task("t4", "c4", "medium", 5, << >>),
       Task("t5", "c5", "medium", 5, << >>) >>)

\* a component with two tasks
PlanTwoTasks == Plan(<<"c1", "c2">>,
    << Task("t1", "c1", "medium", 5, << >>),
       Task("t2", "c1", "medium", 5, << >>),
       Task("t3", "c2", "medium", 5, <<"c1">>) >>)

\* components that no task belongs to
PlanNoTask == Plan(<<"c1", "c2", "c3">>,
    << Task("t1", "c1", "medium", 5, << >>) >>)

\* nothing to do
PlanEmpty == Plan(<< >>, << >>)

Plans == { PlanIndep3, PlanIndep2, PlanChain, PlanChainTaskId, PlanCycle,
           PlanDangling, PlanFive, PlanTwoTasks, PlanNoTask, PlanEmpty }

----------------------------------------------------------------------------
(* ProjectManager.get_next_task and _select_highest_priority *)

\* priority_map.get(task.get("priority", "medium"), 2)
PriorityScore(prio) ==
    CASE prio = "high" -> 3
      [] prio = "medium" -> 2
      [] prio = "low" -> 1
      [] OTHER -> 2

\* task.get("estimated_complexity", 5)
Complexity(task) ==
    IF task.estimated_complexity = NoComplexity
    THEN DefaultComplexity ELSE task.estimated_complexity

\* score = priority_score * 10 - complexity
Score(task) == PriorityScore(task.priority) * 10 - Complexity(task)

\* [task for task in tasks if not completion_status.get(component_id, False)]
RECURSIVE IncompleteFrom(_, _, _)
IncompleteFrom(tasks, status, i) ==
    IF i > Len(tasks) THEN << >>
    ELSE IF ~Get(status, tasks[i].component_id)
         THEN <<i>> \o IncompleteFrom(tasks, status, i + 1)
         ELSE IncompleteFrom(tasks, status, i + 1)

\* a faulty variant: the tasks of complete components stay in the list
IncompleteTasksAll(tasks, status) == [i \in 1..Len(tasks) |-> i]

IncompleteTasks(tasks, status) == IncompleteFrom(tasks, status, 1)

\* a faulty variant: a prerequisite the tracker does not know counts as met
PrereqsMetAbsentOk(task, status) ==
    \A k \in DOMAIN task.prerequisites :
        \/ task.prerequisites[k] \notin DOMAIN status
        \/ status[task.prerequisites[k]]

\* all(completion_status.get(prereq, False) for prereq in prerequisites)
PrereqsMet(task, status) ==
    \A k \in DOMAIN task.prerequisites : Get(status, task.prerequisites[k])

\* list.sort(reverse=True, key=score): a stable sort, elements of equal
\* score keep their order
RECURSIVE InsertByScore(_, _, _)
InsertByScore(tasks, sorted, i) ==
    IF sorted = << >> THEN <<i>>
    ELSE IF Score(tasks[Head(sorted)]) >= Score(tasks[i])
         THEN <<Head(sorted)>> \o InsertByScore(tasks, Tail(sorted), i)
         ELSE <<i>> \o sorted

RECURSIVE SortByScore(_, _)
SortByScore(tasks, idxs) ==
    IF idxs = << >> THEN << >>
    ELSE InsertByScore(tasks,
                       SortByScore(tasks, SubSeq(idxs, 1, Len(idxs) - 1)),
                       idxs[Len(idxs)])

\* a faulty variant: the first task, whatever its score
SelectFirst(tasks, idxs) == idxs[1]

\* tasks_with_scores.sort(...); return tasks_with_scores[0][1]
SelectHighestPriority(tasks, idxs) == SortByScore(tasks, idxs)[1]

\* a faulty variant: the scan keeps the last task whose prerequisites are met
RECURSIVE LastMet(_, _, _)
LastMet(tasks, status, idxs) ==
    IF idxs = << >> THEN 0
    ELSE IF PrereqsMet(tasks[idxs[Len(idxs)]], status) THEN idxs[Len(idxs)]
         ELSE LastMet(tasks, status, SubSeq(idxs, 1, Len(idxs) - 1))

\* for task in incomplete_tasks: ... if prereqs_met: return task
RECURSIVE FirstMet(_, _, _)
FirstMet(tasks, status, idxs) ==
    IF idxs = << >> THEN 0
    ELSE IF PrereqsMet(tasks[Head(idxs)], status) THEN Head(idxs)
         ELSE FirstMet(tasks, status, Tail(idxs))

\* a faulty variant: no fallback when no task has its prerequisites met
GetNextTaskNoFallback(project_plan, status) ==
    FirstMet(project_plan.tasks, status,
             IncompleteTasks(project_plan.tasks, status))

\* a faulty variant: the answer depends on the loop counter
GetNextTaskRotating(project_plan, status) ==
    LET incomplete == IncompleteTasks(project_plan.tasks, status)
    IN  IF incomplete = << >> THEN 0
        ELSE incomplete[(iteration % Len(incomplete)) + 1]

GetNextTask(project_plan, status) ==
    LET incomplete == IncompleteTasks(project_plan.tasks, status)
        met == FirstMet(project_plan.tasks, status, incomplete)
    IN  IF incomplete = << >> THEN 0
        ELSE IF met # 0 THEN met
        ELSE SelectHighestPriority(project_plan.tasks, incomplete)

----------------------------------------------------------------------------
(* Collaborator results *)

Paths == {"p1", "p2"}

\* the "files" entry of an execution result or of a fix
FileMaps == { EmptyMap, [p \in {"p1"} |-> 1], [p \in {"p1"} |-> 2] }

\* the codebase generate_project_structure hands to the loop
InitCodebases == { [p \in {"p2"} |-> 2] }

\* an optional boolean entry of a result dict
Flags == {"true", "false", "missing"}

\* the "passed" entry, which run_tests always sets
TestFlags == {"true", "false"}

\* task_result.get("completed"), test_results.get("passed", False)
Truthy(flag) == flag = "true"

\* a line of test output, by the markers it contains: "FAILED" stands for a
\* line with FAILED, ERROR or Error:, "Error" for a line with Error but no
\* colon after it, "Traceback" for a line with Traceback only
LineKinds == {"FAILED", "Traceback", "Error", "plain"}

RECURSIVE SeqsUpTo(_, _)
SeqsUpTo(S, n) ==
    IF n = 0 THEN { << >> }
    ELSE LET shorter == SeqsUpTo(S, n - 1)
         IN  shorter \cup { Append(s, x) : s \in shorter, x \in S }

Outputs == SeqsUpTo(LineKinds, MaxLines)

NoConfidence == -1    \* the fix has no "confidence" entry

Confidences == { NoConfidence, 6, 9 }

\* what self.llm.generate gives _analyze_and_fix_error: a fix dict, or an
\* exception (also from json.loads or a response that is no dict)
LlmResponses ==
    [kind : {"fix"}, confidence : Confidences, files : FileMaps]
    \cup { [kind |-> "exception", confidence |-> NoConfidence, files |-> EmptyMap] }

NoResponse == [kind |-> "none", confidence |-> NoConfidence, files |-> EmptyMap]

----------------------------------------------------------------------------
(* AutoDebugger *)

\* "FAILED" in output or "ERROR" in output or "Error" in output
HasErrorText(output) ==
    \E i \in DOMAIN output : output[i] \in {"FAILED", "Error"}

\* any(marker in line for marker in ["FAILED", "ERROR", "Error:", "Traceback"])
IsMarker(line) == line \in {"FAILED", "Traceback"}

\* the loop over the lines: errors collected so far, current_error
RECURSIVE ScanLines(_, _, _, _)
ScanLines(output, i, errs, current) ==
    IF i > Len(output)
    THEN IF current # << >> THEN Append(errs, current) ELSE errs
    ELSE IF IsMarker(output[i])
         THEN ScanLines(output, i + 1,
                        IF current # << >> THEN Append(errs, current) ELSE errs,
                        <<output[i]>>)
         ELSE IF current # << >>
              THEN ScanLines(output, i + 1, errs, Append(current, output[i]))
              ELSE ScanLines(output, i + 1, errs, current)

FirstN(s, n) == SubSeq(s, 1, IF Len(s) < n THEN Len(s) ELSE n)

\* a faulty variant: every extracted error is kept
ExtractErrorsAll(output) ==
    IF HasErrorText(output)
    THEN ScanLines(output, 1, << >>, << >>)
    ELSE << >>

\* _extract_errors: return errors[:5]
ExtractErrors(output) ==
    IF HasErrorText(output)
    THEN FirstN(ScanLines(output, 1, << >>, << >>), ErrorLimit)
    ELSE << >>

\* fix.get("confidence", 0)
Confidence(fix) ==
    IF fix.confidence = NoConfidence THEN DefaultConfidence ELSE fix.confidence

\* a faulty variant: the threshold compared with >=
AcceptsAtThreshold(fix) == Confidence(fix) >= ConfThreshold

\* if fix.get("confidence", 0) > 0.6
Accepts(fix) == Confidence(fix) > ConfThreshold

\* _analyze_and_fix_error: the fix, or nothing (None), as a sequence of
\* length one or zero
AnalyzeAndFixError(response) ==
    IF response.kind = "fix" /\ Accepts(response) THEN <<response>> ELSE << >>

\* for fix in fixes: for file_path, content in fix["files"].items():
\*     modified_files[file_path] = content
RECURSIVE ModifiedFiles(_)
ModifiedFiles(fs) ==
    IF fs = << >> THEN EmptyMap
    ELSE Update(ModifiedFiles(SubSeq(fs, 1, Len(fs) - 1)), fs[Len(fs)].files)

----------------------------------------------------------------------------
(* The progress store *)

\* a faulty variant: the record carries the counter of the iteration before
ProgressRecordStale(iter, status, cb, stamp) ==
    [iteration |-> iter - 1, completion_status |-> status, codebase |-> cb,
     last_updated |-> stamp]

ProgressRecord(iter, status, cb, stamp) ==
    [iteration |-> iter, completion_status |-> status, codebase |-> cb,
     last_updated |-> stamp]

NoRecord == ProgressRecord(0, EmptyMap, EmptyMap, 0)

\* json.dumps(progress, indent=2): the text of the record; a Python bool
\* is written as the token true or false, the keys (strings) as they are
JsonDumps(record) ==
    [iteration |-> record.iteration,
     completion_status |->
        [k \in DOMAIN record.completion_status |->
            IF record.completion_status[k] THEN "true" ELSE "false"],
     codebase |-> record.codebase,
     last_updated |-> record.last_updated]

\* json.loads(text): the tokens true and false become Python bools
JsonLoads(text) ==
    [iteration |-> text.iteration,
     completion_status |->
        [k \in DOMAIN text.completion_status |-> text.completion_status[k] = "true"],
     codebase |-> text.codebase,
     last_updated |-> text.last_updated]

NoText == JsonDumps(NoRecord)

\* the file: absent, or opened for writing and still empty, or holding part
\* of the JSON text, or holding all of it
FileAbsent == [state |-> "absent", data |-> NoText]

\* load_progress: None, the record, or the JSONDecodeError json.loads raises
\* on a text that is not complete
LoadProgress(file) ==
    CASE file.state = "absent" -> [kind |-> "None", data |-> NoRecord]
      [] file.state = "complete" -> [kind |-> "record", data |-> JsonLoads(file.data)]
      [] OTHER -> [kind |-> "JSONDecodeError", data |-> NoRecord]

\* completed / total * 100 if total > 0 else 0, as a fraction
Percentage(completed, total) ==
    IF total > 0 THEN [num |-> completed * 100, den |-> total]
    ELSE [num |-> 0, den |-> 1]

\* sum(1 for v in completion.values() if v)
CountTrue(completion) ==
    Cardinality({ k \in DOMAIN completion : completion[k] })

\* a faulty variant: a record without components counts as in progress
GetProjectStatusStrict(file) ==
    LET progress == LoadProgress(file)
        completion == progress.data.completion_status
        total == Cardinality(DOMAIN completion)
        completed == CountTrue(completion)
    IN  CASE progress.kind = "None" -> [status |-> "not_started"]
          [] progress.kind = "JSONDecodeError" -> [status |-> "JSONDecodeError"]
          [] OTHER ->
               [status |-> IF completed < total \/ total = 0
                           THEN "in_progress" ELSE "completed",
                completion_percentage |-> Percentage(completed, total),
                iteration |-> progress.data.iteration,
                last_updated |-> progress.data.last_updated]

\* ProjectManager.get_project_status; a JSONDecodeError of load_progress
\* goes through to the caller
GetProjectStatus(file) ==
    LET progress == LoadProgress(file)
        completion == progress.data.completion_status
        total == Cardinality(DOMAIN completion)
        completed == CountTrue(completion)
    IN  CASE progress.kind = "None" -> [status |-> "not_started"]
          [] progress.kind = "JSONDecodeError" -> [status |-> "JSONDecodeError"]
          [] OTHER ->
               [status |-> IF completed < total THEN "in_progress" ELSE "completed",
                completion_percentage |-> Percentage(completed, total),
                iteration |-> progress.data.iteration,
                last_updated |-> progress.data.last_updated]

----------------------------------------------------------------------------
(* DevonikaEngine *)

Configs == [max_iterations : 0..MaxIter, auto_test : BOOLEAN,
            auto_fix_errors : BOOLEAN]

\* {comp["id"]: False for comp in components}
InitialStatus(project_plan) ==
    [c \in Range(project_plan.components) |-> FALSE]

\* a faulty variant: only the components that have a task are looked at
AllCompleteReferenced(status) ==
    \A i \in DOMAIN plan.tasks : Get(status, plan.tasks[i].component_id)

\* a faulty variant: a tracker without entries does not count as complete
AllCompleteNonEmpty(status) ==
    status # EmptyMap /\ \A c \in DOMAIN status : status[c]

\* all(completion_status.values())
AllComplete(status) == \A c \in DOMAIN status : status[c]

\* a faulty variant: one iteration too many
LoopCondInclusive(iter, max_iterations) == iter <= max_iterations

\* while iteration < max_iterations
LoopCond(iter, max_iterations) == iter < max_iterations

\* a faulty variant: the tracker is rebuilt around the component just completed
MarkCompleteRebuild(status, task, flag) ==
    IF Truthy(flag)
    THEN [c \in (DOMAIN status) \cup {task.component_id} |-> c = task.component_id]
    ELSE status

\* a faulty variant: a component counts as complete only when its test passed
MarkCompleteIfTested(status, task, flag) ==
    IF Truthy(flag) /\ test_results.passed # "false"
    THEN Put(status, task.component_id, TRUE)
    ELSE status

\* if task_result.get("completed"):
\*     completion_status[next_task["component_id"]] = True
MarkComplete(status, task, flag) ==
    IF Truthy(flag) THEN Put(status, task.component_id, TRUE) ELSE status

\* a faulty variant: the error result carries the partial project state
BuildProjectExceptPartial(e) ==
    [status |-> "error", error |-> e,
     project |-> [codebase |-> codebase, completion_status |-> completion_status]]

\* except Exception as e: return {"status": "error", "error": str(e)}
BuildProjectExcept(e) == [status |-> "error", error |-> e]

\* return {"status": "success", "project": final_result, "path": ...}
BuildProjectSuccess ==
    [status |-> "success",
     project |-> [codebase |-> codebase, iterations |-> iteration,
                  completion_status |-> completion_status],
     path |-> "project_path"]

NoTest == [passed |-> "none", output |-> << >>]

\* no debug attempt in this iteration
NoDebug == [fixed |-> FALSE, files |-> EmptyMap, num_fixes |-> 0, message |-> "none"]

\* return {"fixed": False, "message": ...}
NotFixed(message) ==
    [fixed |-> FALSE, files |-> EmptyMap, num_fixes |-> 0, message |-> message]

\* return {"fixed": True, "files": modified_files, "num_fixes": len(fixes)}
Fixed(fs) ==
    [fixed |-> TRUE, files |-> ModifiedFiles(fs), num_fixes |-> Len(fs),
     message |-> "none"]

Init ==
    /\ plan \in Plans
    /\ config \in Configs
    /\ iteration = 0
    /\ completion_status = InitialStatus(plan)
    /\ codebase \in InitCodebases
    /\ next_task = 0
    /\ task_result = "none"
    /\ test_results = NoTest
    /\ errors = << >>
    /\ fixes = << >>
    /\ err_idx = 0
    /\ llm_response = NoResponse
    /\ debug_result = NoDebug
    /\ progress_file = FileAbsent
    /\ now = 0
    /\ pc = "loop"
    /\ result = [status |-> "running"]
    /\ exit_reason = "none"
    /\ loop_steps = 0
    /\ n_dispatch = 0
    /\ n_collab = 0
    /\ raised = [who |-> "none", iteration |-> 0, n_collab |-> 0]
    /\ sched_prev = [called |-> FALSE, status |-> EmptyMap, task |-> 0]
    /\ load_result = [kind |-> "unread", data |-> NoRecord]

planVars == << plan, config >>
debugVars == << errors, fixes, err_idx, llm_response, debug_result >>
countVars == << loop_steps, n_dispatch, n_collab >>

\* an exception reaches build_project's handler
Except(e) ==
    /\ pc' = "done"
    /\ result' = BuildProjectExcept(e)
    /\ raised' = [who |-> e, iteration |-> iteration, n_collab |-> n_collab']

\* the while condition fails: the loop returns
LoopExitMax ==
    /\ pc = "loop"
    /\ ~LoopCond(iteration, config.max_iterations)
    /\ pc' = "return"
    /\ exit_reason' = "max_iterations"
    /\ loop_steps' = loop_steps + 1
    /\ UNCHANGED << planVars, iteration, completion_status, codebase, next_task,
                    task_result, test_results, debugVars, progress_file, now,
                    result, n_dispatch, n_collab, raised, sched_prev, load_result >>

\* if all(completion_status.values()): break
LoopAllComplete ==
    /\ pc = "loop"
    /\ LoopCond(iteration, config.max_iterations)
    /\ iteration' = iteration + 1
    /\ AllComplete(completion_status)
    /\ pc' = "return"
    /\ exit_reason' = "all_complete"
    /\ loop_steps' = loop_steps + 1
    /\ UNCHANGED << planVars, completion_status, codebase, next_task,
                    task_result, test_results, debugVars, progress_file, now,
                    result, n_dispatch, n_collab, raised, sched_prev, load_result >>

\* next_task = await self.manager.get_next_task(...); if not next_task: break
LoopNoTask ==
    /\ pc = "loop"
    /\ LoopCond(iteration, config.max_iterations)
    /\ iteration' = iteration + 1
    /\ ~AllComplete(completion_status)
    /\ GetNextTask(plan, completion_status) = 0
    /\ next_task' = 0
    /\ sched_prev' = [called |-> TRUE, status |-> completion_status, task |-> 0]
    /\ pc' = "return"
    /\ exit_reason' = "no_task"
    /\ loop_steps' = loop_steps + 1
    /\ UNCHANGED << planVars, completion_status, codebase,
                    task_result, test_results, debugVars, progress_file, now,
                    result, n_dispatch, n_collab, raised, load_result >>

\* a task is scheduled; the results of the iteration before are dead
LoopSchedule ==
    /\ pc = "loop"
    /\ LoopCond(iteration, config.max_iterations)
    /\ iteration' = iteration + 1
    /\ ~AllComplete(completion_status)
    /\ GetNextTask(plan, completion_status) # 0
    /\ next_task' = GetNextTask(plan, completion_status)
    /\ sched_prev' = [called |-> TRUE, status |-> completion_status,
                      task |-> next_task']
    /\ task_result' = "none"
    /\ test_results' = NoTest
    /\ errors' = << >>
    /\ fixes' = << >>
    /\ err_idx' = 0
    /\ llm_response' = NoResponse
    /\ debug_result' = NoDebug
    /\ pc' = "execute"
    /\ loop_steps' = loop_steps + 1
    /\ UNCHANGED << planVars, completion_status, codebase, progress_file, now,
                    result, exit_reason, n_dispatch, n_collab, raised, load_result >>

\* task_result = await self.executor.execute_task(...);
\* codebase.update(task_result.get("files", {}))
ExecuteReturn ==
    /\ pc = "execute"
    /\ \E files \in FileMaps, completed \in Flags :
          /\ task_result' = completed
          /\ codebase' = Update(codebase, files)
    /\ n_dispatch' = n_dispatch + 1
    /\ n_collab' = n_collab + 1
    /\ pc' = IF config.auto_test THEN "test" ELSE "mark"
    /\ UNCHANGED << planVars, iteration, completion_status, next_task,
                    test_results, debugVars, progress_file, now, result,
                    exit_reason, loop_steps, raised, sched_prev, load_result >>

ExecuteRaise ==
    /\ pc = "execute"
    /\ n_dispatch' = n_dispatch + 1
    /\ n_collab' = n_collab + 1
    /\ UNCHANGED << planVars, iteration, completion_status, codebase, next_task,
                    task_result, test_results, debugVars, progress_file, now,
                    exit_reason, loop_steps, sched_prev, load_result >>
    /\ Except("execute")

\* test_results = await self.tester.run_tests(project_path, next_task)
TestReturn ==
    /\ pc = "test"
    /\ \E passed \in TestFlags, output \in Outputs :
          /\ pc' = IF ~Truthy(passed) /\ config.auto_fix_errors
                   THEN "debug" ELSE "mark"
          /\ test_results' = [passed |-> passed,
                              output |-> IF pc' = "debug" THEN output ELSE << >>]
    /\ n_collab' = n_collab + 1
    /\ UNCHANGED << planVars, iteration, completion_status, codebase, next_task,
                    task_result, debugVars, progress_file, now, result,
                    exit_reason, loop_steps, n_dispatch, raised, sched_prev,
                    load_result >>

TestRaise ==
    /\ pc = "test"
    /\ n_collab' = n_collab + 1
    /\ UNCHANGED << planVars, iteration, completion_status, codebase, next_task,
                    task_result, test_results, debugVars, progress_file, now,
                    exit_reason, loop_steps, n_dispatch, sched_prev, load_result >>
    /\ Except("test")

\* debug_and_fix is entered: errors = self._extract_errors(test_results);
\* if not errors: return {"fixed": False, ...}
DebugStart ==
    /\ pc = "debug"
    /\ errors' = ExtractErrors(test_results.output)
    /\ fixes' = << >>
    /\ err_idx' = IF errors' = << >> THEN 0 ELSE 1
    /\ pc' = IF errors' = << >> THEN "mark" ELSE "analyze"
    /\ debug_result' =
          IF errors' = << >> THEN NotFixed("No clear errors to fix") ELSE NoDebug
    /\ test_results' = [test_results EXCEPT !.output = << >>]
    /\ n_collab' = n_collab + 1
    /\ UNCHANGED << planVars, iteration, completion_status, codebase, next_task,
                    task_result, llm_response, progress_file, now,
                    result, exit_reason, loop_steps, n_dispatch, raised,
                    sched_prev, load_result >>

\* response = await self.llm.generate(prompt, response_format="json")
LlmGenerate ==
    /\ pc = "analyze"
    /\ \E response \in LlmResponses : llm_response' = response
    /\ pc' = "fix"
    /\ UNCHANGED << planVars, iteration, completion_status, codebase, next_task,
                    task_result, test_results, errors, fixes, err_idx,
                    debug_result, progress_file, now, result, exit_reason,
                    countVars, raised,
                    sched_prev, load_result >>

\* fix = await self._analyze_and_fix_error(error, ...); if fix: fixes.append(fix)
\* after the last error: if not fixes: return {"fixed": False, ...}
AnalyzeError ==
    /\ pc = "fix"
    /\ fixes' = fixes \o AnalyzeAndFixError(llm_response)
    /\ IF err_idx < Len(errors)
       THEN /\ err_idx' = err_idx + 1
            /\ errors' = errors
            /\ llm_response' = NoResponse
            /\ debug_result' = debug_result
            /\ pc' = "analyze"
       ELSE /\ err_idx' = 0
            /\ errors' = << >>
            /\ llm_response' = llm_response
            /\ debug_result' = IF fixes' = << >>
                               THEN NotFixed("Could not generate fixes")
                               ELSE debug_result
            /\ pc' = IF fixes' = << >> THEN "mark" ELSE "apply"
    /\ UNCHANGED << planVars, iteration, completion_status, codebase, next_task,
                    task_result, test_results, progress_file, now,
                    result, exit_reason, countVars, raised, sched_prev,
                    load_result >>

\* a faulty variant: the tests are run again after the fixes were merged
ApplyFixesRetest ==
    /\ pc = "apply"
    /\ debug_result' = Fixed(fixes)
    /\ codebase' = Update(codebase, debug_result'.files)
    /\ fixes' = << >>
    /\ pc' = "test"
    /\ UNCHANGED << planVars, iteration, completion_status, next_task,
                    task_result, test_results, errors, err_idx, llm_response,
                    progress_file, now, result, exit_reason, countVars, raised,
                    sched_prev, load_result >>

\* the fixes are written and returned; back in the loop:
\* if debug_result.get("fixed"): codebase.update(debug_result.get("files", {}))
ApplyFixes ==
    /\ pc = "apply"
    /\ debug_result' = Fixed(fixes)
    /\ codebase' = IF debug_result'.fixed
                   THEN Update(codebase, debug_result'.files) ELSE codebase
    /\ fixes' = << >>
    /\ pc' = "mark"
    /\ UNCHANGED << planVars, iteration, completion_status, next_task,
                    task_result, test_results, errors, err_idx, llm_response,
                    progress_file, now, result, exit_reason, countVars, raised,
                    sched_prev, load_result >>

\* full_path.write_text(content) raises: debug_and_fix raises
ApplyRaise ==
    /\ pc = "apply"
    /\ UNCHANGED << planVars, iteration, completion_status, codebase, next_task,
                    task_result, test_results, debugVars, progress_file, now,
                    exit_reason, countVars, sched_prev, load_result >>
    /\ Except("repair")

\* if task_result.get("completed"): completion_status[...] = True
MarkTaskComplete ==
    /\ pc = "mark"
    /\ completion_status' =
          MarkComplete(completion_status, plan.tasks[next_task], task_result)
    /\ llm_response' = NoResponse
    /\ pc' = "save"
    /\ UNCHANGED << planVars, iteration, codebase, next_task, task_result,
                    test_results, errors, fixes, err_idx, debug_result,
                    progress_file, now, result,
                    exit_reason, countVars, raised, sched_prev, load_result >>

\* save_progress: progress["last_updated"] = datetime.now().isoformat();
\* write_text opens progress.json for writing, which empties it
SaveOpen ==
    /\ pc = "save"
    /\ now' = now + 1
    /\ progress_file' = [state |-> "empty", data |-> NoText]
    /\ pc' = "writing"
    /\ UNCHANGED << planVars, iteration, completion_status, codebase, next_task,
                    task_result, test_results, debugVars, result, exit_reason,
                    countVars, raised, sched_prev, load_result >>

\* part of the text reaches the file before the rest
SaveFlush ==
    /\ pc = "writing"
    /\ progress_file.state = "empty"
    /\ progress_file' = [state |-> "partial", data |-> NoText]
    /\ UNCHANGED << planVars, iteration, completion_status, codebase, next_task,
                    task_result, test_results, debugVars, now, pc, result,
                    exit_reason, countVars, raised, sched_prev, load_result >>

\* the text is written and the file closed; the loop goes on
SaveClose ==
    /\ pc = "writing"
    /\ progress_file' =
          [state |-> "complete",
           data |-> JsonDumps(ProgressRecord(iteration, completion_status,
                                             codebase, now))]
    /\ pc' = "loop"
    /\ UNCHANGED << planVars, iteration, completion_status, codebase, next_task,
                    task_result, test_results, debugVars, now, result,
                    exit_reason, countVars, raised, sched_prev, load_result >>

\* a faulty variant: the loop catches the failure of the save, logs it and
\* goes on with the next iteration
SaveRaiseSwallowed ==
    /\ pc \in {"save", "writing"}
    /\ pc' = "loop"
    /\ raised' = [who |-> "save", iteration |-> iteration, n_collab |-> n_collab]
    /\ UNCHANGED << planVars, iteration, completion_status, codebase, next_task,
                    task_result, test_results, debugVars, progress_file, now,
                    result, exit_reason, countVars, sched_prev, load_result >>

\* mkdir or write_text raises (before or after the file was emptied)
SaveRaise ==
    /\ pc \in {"save", "writing"}
    /\ UNCHANGED << planVars, iteration, completion_status, codebase, next_task,
                    task_result, test_results, debugVars, progress_file, now,
                    exit_reason, countVars, sched_prev, load_result >>
    /\ Except("save")

\* the loop returned, optimisation and documentation went through
BuildReturn ==
    /\ pc = "return"
    /\ result' = BuildProjectSuccess
    /\ pc' = "done"
    /\ UNCHANGED << planVars, iteration, completion_status, codebase, next_task,
                    task_result, test_results, debugVars, progress_file, now,
                    exit_reason, countVars, raised, sched_prev, load_result >>

\* _optimize_project or _generate_documentation raises
FinalizeRaise ==
    /\ pc = "return"
    /\ UNCHANGED << planVars, iteration, completion_status, codebase, next_task,
                    task_result, test_results, debugVars, progress_file, now,
                    exit_reason, countVars, sched_prev, load_result >>
    /\ Except("finalize")

Next ==
    \/ LoopExitMax \/ LoopAllComplete \/ LoopNoTask \/ LoopSchedule
    \/ ExecuteReturn \/ ExecuteRaise
    \/ TestReturn \/ TestRaise
    \/ DebugStart \/ LlmGenerate \/ AnalyzeError \/ ApplyFixes \/ ApplyRaise
    \/ MarkTaskComplete
    \/ SaveOpen \/ SaveFlush \/ SaveClose \/ SaveRaise
    \/ BuildReturn \/ FinalizeRaise

Spec == Init /\ [][Next]_vars

----------------------------------------------------------------------------
(* The scheduler on its own: get_next_task on generated plans and trackers *)

SchedComponents == {"c1", "c2", "cX"}

\* a prerequisite names a component, or the second task, or nothing the
\* plan or the tracker knows
SchedPrerequisites == { << >>, <<"c1">>, <<"c2">>, <<"t2">>, <<"ghost">> }

\* priority and estimated_complexity of a generated task
SchedGrades == { <<"high", 1>>, <<"high", 8>>, <<"medium", 5>>, <<"low", 1>>,
                 <<"none", NoComplexity>> }

SchedTasks ==
    { Task("t", cid, g[1], g[2], pre) :
        cid \in SchedComponents, g \in SchedGrades, pre \in SchedPrerequisites }

\* task["id"]: unique, by position
TaskIds == <<"t1", "t2", "t3", "t4">>

WithIds(ts) == [i \in DOMAIN ts |-> [ts[i] EXCEPT !.id = TaskIds[i]]]

SchedPlans ==
    { Plan(<<"c1", "c2">>, WithIds(ts)) : ts \in SeqsUpTo(SchedTasks, MaxTasks) }

\* the tracker of such a plan at any time of a build: "cX" is a key once a
\* task of that component has completed
SchedTrackers ==
    [{"c1", "c2"} -> BOOLEAN]
    \cup { Put(t, "cX", TRUE) : t \in [{"c1", "c2"} -> BOOLEAN] }

SchedInit ==
    /\ plan \in SchedPlans
    /\ completion_status \in SchedTrackers
    /\ config = [max_iterations |-> MaxIter, auto_test |-> FALSE,
                 auto_fix_errors |-> FALSE]
    /\ iteration = 0
    /\ codebase = EmptyMap
    /\ next_task = 0
    /\ task_result = "none"
    /\ test_results = NoTest
    /\ errors = << >>
    /\ fixes = << >>
    /\ err_idx = 0
    /\ llm_response = NoResponse
    /\ debug_result = NoDebug
    /\ progress_file = FileAbsent
    /\ now = 0
    /\ pc = "sched"
    /\ result = [status |-> "running"]
    /\ exit_reason = "none"
    /\ loop_steps = 0
    /\ n_dispatch = 0
    /\ n_collab = 0
    /\ raised = [who |-> "none", iteration |-> 0, n_collab |-> 0]
    /\ sched_prev = [called |-> FALSE, status |-> EmptyMap, task |-> 0]
    /\ load_result = [kind |-> "unread", data |-> NoRecord]

\* next_task = await self.manager.get_next_task(project_plan, completion_status)
SchedCall ==
    /\ pc = "sched"
    /\ next_task' = GetNextTask(plan, completion_status)
    /\ sched_prev' = [called |-> TRUE, status |-> completion_status,
                      task |-> next_task']
    /\ pc' = "scheduled"
    /\ UNCHANGED << planVars, iteration, completion_status, codebase,
                    task_result, test_results, debugVars, progress_file, now,
                    result, exit_reason, countVars, raised, load_result >>

SchedNext == SchedCall

SchedSpec == SchedInit /\ [][SchedNext]_vars

----------------------------------------------------------------------------
(* The progress store with its readers: a build without tests, any number *)
(* of load_progress calls from other processes, and the end of the         *)
(* building process at any point                                           *)

StoreInit ==
    /\ Init
    /\ plan \in {PlanIndep2, PlanNoTask}
    /\ ~config.auto_test

\* load_progress in another process
Load ==
    /\ load_result' = LoadProgress(progress_file)
    /\ UNCHANGED << planVars, iteration, completion_status, codebase, next_task,
                    task_result, test_results, debugVars, progress_file, now,
                    pc, result, exit_reason, countVars, raised, sched_prev >>

\* the building process is terminated
Kill ==
    /\ pc \notin {"done", "killed"}
    /\ pc' = "killed"
    /\ UNCHANGED << planVars, iteration, completion_status, codebase, next_task,
                    task_result, test_results, debugVars, progress_file, now,
                    result, exit_reason, countVars, raised, sched_prev,
                    load_result >>

StoreNext ==
    \/ LoopExitMax \/ LoopAllComplete \/ LoopNoTask \/ LoopSchedule
    \/ ExecuteReturn \/ ExecuteRaise
    \/ MarkTaskComplete
    \/ SaveOpen \/ SaveFlush \/ SaveClose \/ SaveRaise
    \/ BuildReturn \/ FinalizeRaise
    \/ Load \/ Kill

StoreSpec == StoreInit /\ [][StoreNext]_vars

----------------------------------------------------------------------------
(* The operations on a project's store, called one after the other:        *)
(* save_progress, load_progress, get_project_status and the status command *)

Never == -1           \* status.get('last_updated', 'never')

\* d.get(k, default) on a status dict
Field(d, k, default) == IF k \in DOMAIN d THEN d[k] ELSE default

\* DevonikaEngine.get_project_status
EngineGetProjectStatus(current_project, file) ==
    IF current_project = "None" THEN [status |-> "no_active_project"]
    ELSE GetProjectStatus(file)

\* DevonikaCLI._cmd_status: what the command prints and returns; the
\* engine it asks was constructed just before, its current_project is None
CmdStatus(project_exists, file) ==
    IF ~project_exists
    THEN [rc |-> 1, status |-> "Project not found",
          completion_percentage |-> Percentage(0, 0), iteration |-> 0,
          last_updated |-> Never]
    ELSE LET status == EngineGetProjectStatus("None", file)
         IN  [rc |-> 0,
              status |-> Field(status, "status", "unknown"),
              completion_percentage |->
                  Field(status, "completion_percentage", Percentage(0, 0)),
              iteration |-> Field(status, "iteration", 0),
              last_updated |-> Field(status, "last_updated", Never)]

\* the trackers a caller hands to save_progress
StoreTrackers ==
    { EmptyMap } \cup [{"c1"} -> BOOLEAN] \cup [{"c1", "c2"} -> BOOLEAN]

ManagerInit ==
    /\ plan = PlanEmpty
    /\ config = [max_iterations |-> MaxIter, auto_test |-> FALSE,
                 auto_fix_errors |-> FALSE]
    /\ iteration = 0
    /\ completion_status = EmptyMap
    /\ codebase = EmptyMap
    /\ next_task = 0
    /\ task_result = "none"
    /\ test_results = NoTest
    /\ errors = << >>
    /\ fixes = << >>
    /\ err_idx = 0
    /\ llm_response = NoResponse
    /\ debug_result = NoDebug
    /\ progress_file = FileAbsent
    /\ now = 0
    /\ pc = "manager"
    /\ result = [status |-> "running"]
    /\ exit_reason = "none"
    /\ loop_steps = 0
    /\ n_dispatch = 0
    /\ n_collab = 0
    /\ raised = [who |-> "none", iteration |-> 0, n_collab |-> 0]
    /\ sched_prev = [called |-> FALSE, status |-> EmptyMap, task |-> 0]
    /\ load_result = [kind |-> "unread", data |-> NoRecord]

\* a faulty variant: a record that exists is kept, the new one is dropped
SaveProgressKeepFirst ==
    /\ now < MaxSaves
    /\ \E it \in 0..MaxIter, status \in StoreTrackers, cb \in FileMaps :
          /\ iteration' = it
          /\ completion_status' = status
          /\ codebase' = cb
    /\ now' = now + 1
    /\ progress_file' =
          IF progress_file.state = "complete" THEN progress_file
          ELSE [state |-> "complete",
                data |-> JsonDumps(ProgressRecord(iteration', completion_status',
                                                  codebase', now'))]
    /\ pc' = "saved"
    /\ load_result' = [kind |-> "unread", data |-> NoRecord]
    /\ result' = [status |-> "running"]
    /\ UNCHANGED << planVars, next_task, task_result, test_results, debugVars,
                    exit_reason, countVars, raised, sched_prev >>

\* save_progress(project_path, progress) from its first to its last line:
\* iteration, completion_status and codebase are the record handed in
SaveProgress ==
    /\ now < MaxSaves
    /\ \E it \in 0..MaxIter, status \in StoreTrackers, cb \in FileMaps :
          /\ iteration' = it
          /\ completion_status' = status
          /\ codebase' = cb
    /\ now' = now + 1
    /\ progress_file' =
          [state |-> "complete",
           data |-> JsonDumps(ProgressRecord(iteration', completion_status',
                                             codebase', now'))]
    /\ pc' = "saved"
    /\ load_result' = [kind |-> "unread", data |-> NoRecord]
    /\ result' = [status |-> "running"]
    /\ UNCHANGED << planVars, next_task, task_result, test_results, debugVars,
                    exit_reason, countVars, raised, sched_prev >>

\* load_progress(project_path)
LoadProgressCall ==
    /\ load_result' = LoadProgress(progress_file)
    /\ pc' = "loaded"
    /\ result' = [status |-> "running"]
    /\ UNCHANGED << planVars, iteration, completion_status, codebase, next_task,
                    task_result, test_results, debugVars, progress_file, now,
                    exit_reason, countVars, raised, sched_prev >>

\* ProjectManager.get_project_status(project_path)
GetProjectStatusCall ==
    /\ result' = GetProjectStatus(progress_file)
    /\ pc' = "status"
    /\ load_result' = [kind |-> "unread", data |-> NoRecord]
    /\ UNCHANGED << planVars, iteration, completion_status, codebase, next_task,
                    task_result, test_results, debugVars, progress_file, now,
                    exit_reason, countVars, raised, sched_prev >>

\* `devonika status <project>`; the project directory exists once a record
\* was saved in it
CmdStatusCall ==
    /\ \E project_exists \in BOOLEAN :
          /\ progress_file.state # "absent" => project_exists
          /\ result' = CmdStatus(project_exists, progress_file)
    /\ pc' = "cli_status"
    /\ load_result' = [kind |-> "unread", data |-> NoRecord]
    /\ UNCHANGED << planVars, iteration, completion_status, codebase, next_task,
                    task_result, test_results, debugVars, progress_file, now,
                    exit_reason, countVars, raised, sched_prev >>

ManagerNext ==
    \/ SaveProgress \/ LoadProgressCall \/ GetProjectStatusCall \/ CmdStatusCall

ManagerSpec == ManagerInit /\ [][ManagerNext]_vars

----------------------------------------------------------------------------
(* The build under `asyncio.run(cli.run())` with an interrupt (SIGINT) from *)
(* outside.  What the interrupt does depends on the interpreter, which may *)
(* be any Python from 3.8 on (setup.py): up to 3.10 KeyboardInterrupt is   *)
(* raised at the point the build has reached; from 3.11 on asyncio.run     *)
(* only asks for the cancellation of the main task, which takes effect at  *)
(* the next suspension, and the collaborators as written never suspend.    *)

InterruptInit ==
    /\ Init
    /\ plan \in {PlanIndep2, PlanNoTask}

\* the positions of the build inside a collaborator dispatch
DispatchPcs == {"execute", "test", "debug", "analyze", "fix", "apply"}

Interrupted == [who |-> "interrupt", iteration |-> iteration, n_collab |-> n_collab]

\* KeyboardInterrupt is raised where the build is; `except Exception` in
\* build_project does not catch it and the build is abandoned
InterruptRaise ==
    /\ pc \notin {"done", "interrupted", "interrupted_in_dispatch"}
    /\ raised.who = "none"
    /\ raised' = Interrupted
    /\ pc' = IF pc \in DispatchPcs THEN "interrupted_in_dispatch" ELSE "interrupted"
    /\ UNCHANGED << planVars, iteration, completion_status, codebase, next_task,
                    task_result, test_results, debugVars, progress_file, now,
                    result, exit_reason, countVars, sched_prev, load_result >>

\* KeyboardInterrupt is raised while run_tests reads requirements.txt in
\* _file_contains, whose bare `except: pass` swallows it
InterruptSwallowed ==
    /\ pc = "test"
    /\ raised.who = "none"
    /\ raised' = Interrupted
    /\ UNCHANGED << planVars, iteration, completion_status, codebase, next_task,
                    task_result, test_results, debugVars, progress_file, now,
                    pc, result, exit_reason, countVars, sched_prev, load_result >>

\* asyncio.run asks for the cancellation of the main task; the build goes on
InterruptDeferred ==
    /\ pc \notin {"done", "interrupted", "interrupted_in_dispatch"}
    /\ raised.who = "none"
    /\ raised' = Interrupted
    /\ UNCHANGED << planVars, iteration, completion_status, codebase, next_task,
                    task_result, test_results, debugVars, progress_file, now,
                    pc, result, exit_reason, countVars, sched_prev, load_result >>

\* the build has returned; the cancellation asked for takes effect and
\* asyncio.run raises KeyboardInterrupt
CancelAtEnd ==
    /\ pc = "done"
    /\ raised.who = "interrupt"
    /\ pc' = "interrupted"
    /\ UNCHANGED << planVars, iteration, completion_status, codebase, next_task,
                    task_result, test_results, debugVars, progress_file, now,
                    result, exit_reason, countVars, raised, sched_prev,
                    load_result >>

InterruptNext ==
    \/ Next
    \/ InterruptRaise \/ InterruptSwallowed \/ InterruptDeferred \/ CancelAtEnd

InterruptSpec == InterruptInit /\ [][InterruptNext]_vars

----------------------------------------------------------------------------
(* One debug attempt on its own: debug_and_fix on the output of a failed   *)
(* test run, for outputs long enough to hold more errors than are kept     *)

LongOutputs == SeqsUpTo(LineKinds, MaxOutput)

DebugInit ==
    /\ plan = PlanIndep2
    /\ config = [max_iterations |-> MaxIter, auto_test |-> TRUE,
                 auto_fix_errors |-> TRUE]
    /\ iteration = 1
    /\ completion_status = InitialStatus(plan)
    /\ codebase \in InitCodebases
    /\ next_task = 1
    /\ task_result = "true"
    /\ test_results \in [passed : {"false"}, output : LongOutputs]
    /\ errors = << >>
    /\ fixes = << >>
    /\ err_idx = 0
    /\ llm_response = NoResponse
    /\ debug_result = NoDebug
    /\ progress_file = FileAbsent
    /\ now = 0
    /\ pc = "debug"
    /\ result = [status |-> "running"]
    /\ exit_reason = "none"
    /\ loop_steps = 1
    /\ n_dispatch = 1
    /\ n_collab = 2
    /\ raised = [who |-> "none", iteration |-> 0, n_collab |-> 0]
    /\ sched_prev = [called |-> TRUE, status |-> InitialStatus(plan), task |-> 1]
    /\ load_result = [kind |-> "unread", data |-> NoRecord]

DebugNext ==
    \/ DebugStart \/ LlmGenerate \/ AnalyzeError \/ ApplyFixes \/ ApplyRaise

DebugSpec == DebugInit /\ [][DebugNext]_vars

\* the build is one thread of control; a dispatched collaborator returns or
\* raises, so a build that can take a step takes one
FairSpec == Spec /\ WF_vars(Next)

----------------------------------------------------------------------------
(* The claims *)

\* C1: whatever the plan, the configured max_iterations and the results of
\* the collaborators, the while condition of the build loop is evaluated at
\* most max_iterations + 1 times, the execution collaborator is dispatched
\* at most max_iterations times, and the build comes to its end.
C1_Termination ==
    /\ [](/\ loop_steps <= config.max_iterations + 1
          /\ n_dispatch <= config.max_iterations)
    /\ <>(pc = "done")

\* the whole budget was used: max_iterations dispatches, then the failing
\* evaluation of the loop condition
C1_Witness ==
    /\ pc = "done"
    /\ config.max_iterations = MaxIter
    /\ n_dispatch = config.max_iterations
    /\ loop_steps = config.max_iterations + 1


\* C2: once the tracker maps a component id to TRUE, no step of the build
\* maps it back to FALSE or drops it; whenever a step changes what the
\* tracker says about an id, it is from not complete to complete.
C2_Monotonic ==
    [][\A c \in (DOMAIN completion_status) \cup (DOMAIN completion_status') :
          /\ Get(completion_status, c) => Get(completion_status', c)
          /\ c \in DOMAIN completion_status => c \in DOMAIN completion_status']_vars

\* a component is complete while a later iteration is at work
C2_Witness ==
    /\ iteration >= 2
    /\ pc \in {"test", "apply", "save", "writing"}
    /\ \E c \in DOMAIN completion_status : completion_status[c]

\* the tasks get_next_task filters as incomplete, as a set of positions
IncompleteSet ==
    { i \in DOMAIN plan.tasks :
        \/ plan.tasks[i].component_id \notin DOMAIN completion_status
        \/ ~completion_status[plan.tasks[i].component_id] }

\* C3: get_next_task answers None exactly when no task is incomplete, and
\* otherwise answers an incomplete task, also when every incomplete task has
\* an unmet prerequisite.
C3_NoStall ==
    pc = "scheduled" =>
        /\ next_task = 0 <=> IncompleteSet = {}
        /\ next_task # 0 => next_task \in IncompleteSet

\* two incomplete tasks that wait for each other, and one of them is answered
C3_Witness ==
    /\ pc = "scheduled"
    /\ Len(plan.tasks) = 2
    /\ IncompleteSet = {1, 2}
    /\ plan.tasks[1].component_id = "c1" /\ plan.tasks[1].prerequisites = <<"c2">>
    /\ plan.tasks[2].component_id = "c2" /\ plan.tasks[2].prerequisites = <<"c1">>
    /\ next_task \in IncompleteSet

\* a step of the loop that calls get_next_task
SchedulingStep == pc = "loop" /\ exit_reason' \in {"none", "no_task"}

FixesNaming(fs, p) == { i \in DOMAIN fs : p \in DOMAIN fs[i].files }

LastFixNaming(fs, p) ==
    CHOOSE i \in FixesNaming(fs, p) : \A j \in FixesNaming(fs, p) : j <= i

\* C5: a candidate fix whose confidence is at most 0.6, or missing, never
\* joins the accepted fixes; one with a confidence above 0.6 always does;
\* debug_and_fix never returns without its accepted fixes, and when it
\* returns them the loop merges, in that iteration, exactly their files into
\* the artifact mapping; nothing else of the repair changes the mapping.
C5_FixThreshold ==
    [][/\ pc = "fix" =>
            /\ fixes' = IF llm_response.kind = "fix"
                           /\ llm_response.confidence > ConfThreshold
                        THEN Append(fixes, llm_response) ELSE fixes
            /\ pc' = "mark" => fixes' = << >>
       /\ (pc = "apply" /\ pc' = "mark") =>
            /\ iteration' = iteration
            /\ DOMAIN codebase' =
                  (DOMAIN codebase) \cup UNION { DOMAIN fixes[i].files : i \in DOMAIN fixes }
            /\ \A p \in DOMAIN codebase' :
                  codebase'[p] = IF FixesNaming(fixes, p) = {} THEN codebase[p]
                                 ELSE fixes[LastFixNaming(fixes, p)].files[p]
       /\ pc \in {"debug", "analyze", "fix"} => codebase' = codebase]_vars

\* a fix at 0.9 and a candidate at 0.6 for the same path: the mapping holds
\* the content of the fix at 0.9
C5_Witness ==
    /\ pc = "mark"
    /\ debug_result.fixed
    /\ debug_result.num_fixes = 1
    /\ debug_result.files = [p \in {"p1"} |-> 1]
    /\ llm_response.kind = "fix"
    /\ llm_response.confidence = 6
    /\ llm_response.files = [p \in {"p1"} |-> 2]
    /\ codebase["p1"] = 1

\* Scenario A: every component has exactly one task, no task has
\* prerequisites
IsScenarioA(project_plan) ==
    /\ Len(project_plan.tasks) = Len(project_plan.components)
    /\ Len(project_plan.components) >= 1
    /\ \A i \in DOMAIN project_plan.tasks :
          /\ project_plan.tasks[i].component_id = project_plan.components[i]
          /\ project_plan.tasks[i].prerequisites = << >>
    /\ \A i, j \in DOMAIN project_plan.components :
          project_plan.components[i] = project_plan.components[j] => i = j

\* every execution so far returned completed = true
EveryExecutionCompleted ==
    n_dispatch = Cardinality({ c \in DOMAIN completion_status : completion_status[c] })

\* C6: with n components, one task each, no prerequisites, every execution
\* completed at once and max_iterations above n, the build ends all
\* complete after n dispatches and the loop reports n iterations.
C6_ScenarioA ==
    (/\ IsScenarioA(plan)
     /\ config.max_iterations > Len(plan.components)
     /\ pc = "done"
     /\ raised.who = "none"
     /\ EveryExecutionCompleted)
    => /\ exit_reason = "all_complete"
       /\ n_dispatch = Len(plan.components)
       /\ result.project.iterations = Len(plan.components)

\* every component of the plan has a task
EveryComponentHasTask(project_plan) ==
    \A c \in Range(project_plan.components) :
        \E i \in DOMAIN project_plan.tasks : project_plan.tasks[i].component_id = c

\* the build went through without an exception, with max_iterations = m >= 1
\* and more than m components
BudgetCase ==
    /\ config.max_iterations >= 1
    /\ Cardinality(Range(plan.components)) > config.max_iterations
    /\ pc = "done"
    /\ raised.who = "none"

\* the loop stopped at its maximum after m iterations and m dispatches, and
\* the stored record is the one of iteration m
BudgetOutcome ==
    /\ exit_reason = "max_iterations"
    /\ iteration = config.max_iterations
    /\ n_dispatch = config.max_iterations
    /\ result.project.iterations = config.max_iterations
    /\ progress_file.state = "complete"
    /\ LoadProgress(progress_file).data.iteration = config.max_iterations
    /\ LoadProgress(progress_file).data.completion_status = completion_status
    /\ LoadProgress(progress_file).data.codebase = codebase

\* C7 as stated: with max_iterations = m >= 1 and more than m incomplete
\* components the loop halts at the maximum after exactly m iterations and
\* the stored record is that of iteration m.
C7_BudgetAsStated == BudgetCase => BudgetOutcome

\* C7: the same, for plans in which every component has a task.
C7_Budget == (BudgetCase /\ EveryComponentHasTask(plan)) => BudgetOutcome

\* Scenario E: five components, max_iterations = 2
C7_Witness ==
    /\ plan = PlanFive
    /\ config.max_iterations = 2
    /\ BudgetCase
    /\ BudgetOutcome

\* C8: the step that marks is the only one to change the tracker; it makes
\* complete the component of the dispatched task when the execution
\* result's completed flag is true, and nothing else, whatever the test and
\* the repair of the iteration did.
C8_MarkedIffCompleted ==
    [][/\ pc = "mark" =>
            \A c \in (DOMAIN completion_status') \cup
                     {plan.tasks[next_task].component_id} :
                (Get(completion_status', c) /\ ~Get(completion_status, c))
                <=> (c = plan.tasks[next_task].component_id /\ task_result = "true")
       /\ pc # "mark" => completion_status' = completion_status]_vars

\* marked although the test failed and a repair was merged
C8_Witness ==
    /\ pc = "save"
    /\ task_result = "true"
    /\ test_results.passed = "false"
    /\ debug_result.fixed
    /\ Get(completion_status, plan.tasks[next_task].component_id)

\* C9: when execute, test or repair raises in iteration k the build is at
\* its end, no collaborator was dispatched after the one that raised, the
\* stored record is the one of iteration k - 1 (none for k = 1), and
\* build_project returns a status and an error message and nothing else.
C9_AbortOnException ==
    raised.who \in {"execute", "test", "repair"} =>
        /\ pc = "done"
        /\ n_collab = raised.n_collab
        /\ iteration = raised.iteration
        /\ IF raised.iteration = 1
           THEN progress_file = FileAbsent
           ELSE /\ progress_file.state = "complete"
                /\ LoadProgress(progress_file).data.iteration = raised.iteration - 1
        /\ DOMAIN result = {"status", "error"}
        /\ result.status = "error"

\* the repair raised in the second iteration
C9_Witness ==
    /\ raised.who = "repair"
    /\ raised.iteration = 2
    /\ LoadProgress(progress_file).data.iteration = 1
    /\ result.status = "error"

\* C10: a reader's load_progress returns None or a complete record, never
\* a half-written one, with the writer inside save_progress or terminated
\* there.
C10_AtomicStore == load_result.kind # "JSONDecodeError"

\* C11: when save_progress raises in an iteration the build is at its end
\* in that iteration, no collaborator is dispatched afterwards, and
\* build_project returns an error result, never a success.
C11_SaveFailureSurfaced ==
    raised.who = "save" =>
        /\ pc = "done"
        /\ iteration = raised.iteration
        /\ n_collab = raised.n_collab
        /\ result.status = "error"
        /\ result.error = "save"

\* the save of the second iteration failed after the file was emptied
C11_Witness ==
    /\ raised.who = "save"
    /\ raised.iteration = 2
    /\ progress_file.state \in {"empty", "partial"}
    /\ result.status = "error"

\* how the build ended
Outcome ==
    IF raised.who # "none" THEN "failed" ELSE exit_reason

\* C12: the result handed to the caller carries a state code that tells
\* the four outcomes apart: the code of a build that ended with all
\* components complete is not the code of a build that used up its
\* iterations or of one that found no task to run, and a failure has the
\* error code.
C12_TerminalStateCode ==
    pc = "done" =>
        /\ Outcome = "failed" <=> result.status = "error"
        /\ Outcome = "all_complete" <=> result.status = "success"

\* C13: the status command, run for an existing project, reports the
\* status, completion percentage, iteration and last update that
\* get_project_status derives from the project's stored record, and
\* not_started when there is no record.
C13_CliStatus ==
    (pc = "cli_status" /\ result.rc = 0) =>
        LET status == GetProjectStatus(progress_file)
        IN  /\ result.status = status.status
            /\ result.status \in {"not_started", "in_progress", "completed"}
            /\ progress_file.state = "absent" => result.status = "not_started"
            /\ progress_file.state = "complete" =>
                  /\ result.iteration = status.iteration
                  /\ result.last_updated = status.last_updated
                  /\ result.completion_percentage = status.completion_percentage

\* C16: load_progress returns None as long as save_progress was never
\* called, and after any sequence of saves exactly the record of the last
\* save (iteration, completion status, artifact mapping) with the stamp of
\* that save; nothing of an earlier record is left.
C16_SaveLoad ==
    pc = "loaded" =>
        IF now = 0
        THEN load_result.kind = "None"
        ELSE /\ load_result.kind = "record"
             /\ DOMAIN load_result.data =
                    {"iteration", "completion_status", "codebase", "last_updated"}
             /\ load_result.data.iteration = iteration
             /\ load_result.data.completion_status = completion_status
             /\ load_result.data.codebase = codebase
             /\ load_result.data.last_updated = now

\* loaded after a second save that took a component back and changed the
\* mapping
C16_Witness ==
    /\ pc = "loaded"
    /\ now = 2
    /\ load_result.kind = "record"
    /\ load_result.data.last_updated = 2
    /\ load_result.data.iteration = 1
    /\ load_result.data.completion_status = [c \in {"c1", "c2"} |-> c = "c2"]
    /\ load_result.data.codebase = [p \in {"p1"} |-> 2]

\* the entries of the stored tracker, and those that are true
StoredKeys == DOMAIN LoadProgress(progress_file).data.completion_status

StoredTrue ==
    { k \in StoredKeys : LoadProgress(progress_file).data.completion_status[k] }

\* C17: get_project_status answers not_started when there is no record;
\* otherwise the percentage is true entries / entries * 100, or 0 for a
\* record without entries, the status is completed exactly when the true
\* entries are not fewer than the entries (so also for a record without
\* entries) and in_progress otherwise, iteration and last_updated are
\* those of the record; the call leaves the store as it is.
C17_StatusDerived ==
    [][pc' = "status" =>
         /\ progress_file' = progress_file
         /\ IF progress_file.state = "absent"
            THEN result' = [status |-> "not_started"]
            ELSE /\ result'.status =
                       IF Cardinality(StoredTrue) >= Cardinality(StoredKeys)
                       THEN "completed" ELSE "in_progress"
                 /\ result'.completion_percentage.den # 0
                 /\ IF StoredKeys = {}
                    THEN result'.completion_percentage.num = 0
                    ELSE result'.completion_percentage.num * Cardinality(StoredKeys)
                         = Cardinality(StoredTrue) * 100
                              * result'.completion_percentage.den
                 /\ result'.iteration = iteration
                 /\ result'.last_updated = now]_vars

\* the status of a record without components: completed, at 0 per cent
C17_Witness ==
    /\ pc = "status"
    /\ progress_file.state = "complete"
    /\ StoredKeys = {}
    /\ result.status = "completed"
    /\ result.completion_percentage.num = 0

\* the incomplete tasks all of whose prerequisites the tracker maps to true
MetSet ==
    { i \in IncompleteSet :
        \A k \in DOMAIN plan.tasks[i].prerequisites :
            /\ plan.tasks[i].prerequisites[k] \in DOMAIN completion_status
            /\ completion_status[plan.tasks[i].prerequisites[k]] }

\* priority_weight * 10 - estimated_complexity
Weight(priority) ==
    IF priority = "high" THEN 3 ELSE IF priority = "low" THEN 1 ELSE 2

FallbackScore(i) ==
    Weight(plan.tasks[i].priority) * 10
    - (IF plan.tasks[i].estimated_complexity = NoComplexity THEN 5
       ELSE plan.tasks[i].estimated_complexity)

\* of the incomplete tasks the one of maximal score, the earliest of them
IsFallbackChoice(i) ==
    /\ i \in IncompleteSet
    /\ \A j \in IncompleteSet :
          \/ FallbackScore(i) > FallbackScore(j)
          \/ FallbackScore(i) = FallbackScore(j) /\ i <= j

\* the task names a prerequisite that is neither a task id of the plan nor
\* a key of the tracker
HasDangling(i) ==
    \E k \in DOMAIN plan.tasks[i].prerequisites :
        /\ plan.tasks[i].prerequisites[k] \notin DOMAIN completion_status
        /\ \A j \in DOMAIN plan.tasks :
              plan.tasks[j].id # plan.tasks[i].prerequisites[k]

\* C14: with dangling prerequisites, or tasks of a component the tracker
\* does not know, get_next_task still answers a task or None; a task of an
\* unknown component counts as incomplete; a task with a dangling
\* prerequisite is answered only when no incomplete task has its
\* prerequisites met, and then as the choice of the priority fallback.
C14_DanglingTolerated ==
    pc = "scheduled" =>
        /\ next_task \in 0..Len(plan.tasks)
        /\ (\E i \in DOMAIN plan.tasks :
                plan.tasks[i].component_id \notin DOMAIN completion_status)
           => next_task # 0
        /\ (next_task # 0 /\ HasDangling(next_task))
           => (MetSet = {} /\ IsFallbackChoice(next_task))

\* a task with a dangling prerequisite is answered, by the fallback, ahead
\* of a task of a component the tracker does not know
C14_Witness ==
    /\ pc = "scheduled"
    /\ Len(plan.tasks) = 2
    /\ next_task = 1
    /\ plan.tasks[1].prerequisites = <<"ghost">>
    /\ plan.tasks[2].component_id = "cX"
    /\ "cX" \notin DOMAIN completion_status
    /\ plan.tasks[2].prerequisites = <<"c2">>

\* C18: when some incomplete task has all its prerequisites mapped to true
\* in the tracker (a task without prerequisites is one), get_next_task
\* answers the first such task in the order of the plan: an incomplete
\* task, and none that comes before it has its prerequisites met.
C18_FirstMetInPlanOrder ==
    (pc = "scheduled" /\ MetSet # {}) =>
        /\ next_task \in MetSet
        /\ \A j \in MetSet : next_task <= j

\* Scenario B: the first task names the unfinished second task as its
\* prerequisite, the second has none and is answered
C18_Witness ==
    /\ pc = "scheduled"
    /\ Len(plan.tasks) = 2
    /\ IncompleteSet = {1, 2}
    /\ plan.tasks[1].prerequisites = <<"t2">>
    /\ plan.tasks[2].prerequisites = << >>
    /\ FallbackScore(1) > FallbackScore(2)
    /\ next_task = 2

\* the tasks whose ids task i names as prerequisites
PrerequisiteTasks(i) ==
    { j \in DOMAIN plan.tasks :
        \E k \in DOMAIN plan.tasks[i].prerequisites :
            plan.tasks[j].id = plan.tasks[i].prerequisites[k] }

\* the prerequisites of task i are ids of tasks of the plan, and no
\* component has such an id
NamesTasks(i) ==
    /\ plan.tasks[i].prerequisites # << >>
    /\ \A k \in DOMAIN plan.tasks[i].prerequisites :
          /\ \E j \in DOMAIN plan.tasks :
                plan.tasks[j].id = plan.tasks[i].prerequisites[k]
          /\ plan.tasks[i].prerequisites[k] \notin Range(plan.components)

\* C19: a task whose prerequisites are task ids has its prerequisites met,
\* for the scan of get_next_task, exactly when every prerequisite task has
\* been executed with completed = true (its component is marked): not
\* before, and from then on.
C19_TaskIdPrerequisites ==
    \A i \in DOMAIN plan.tasks :
        NamesTasks(i) =>
            (PrereqsMet(plan.tasks[i], completion_status)
             <=> \A j \in PrerequisiteTasks(i) :
                    Get(completion_status, plan.tasks[j].component_id))

\* C20: when there are incomplete tasks and none has its prerequisites
\* met, get_next_task answers the incomplete task of maximal score
\* weight * 10 - complexity (high 3, medium 2, low 1, any other or no
\* priority 2, no complexity 5), and of several such the earliest.
C20_PriorityFallback ==
    (pc = "scheduled" /\ IncompleteSet # {} /\ MetSet = {}) =>
        IsFallbackChoice(next_task)

\* Scenario C: a cycle, high/8 before high/1, and high/1 is answered
C20_Witness ==
    /\ pc = "scheduled"
    /\ Len(plan.tasks) = 2
    /\ IncompleteSet = {1, 2}
    /\ plan.tasks[1].component_id = "c1" /\ plan.tasks[1].prerequisites = <<"c2">>
    /\ plan.tasks[2].component_id = "c2" /\ plan.tasks[2].prerequisites = <<"c1">>
    /\ plan.tasks[1].priority = "high" /\ plan.tasks[1].estimated_complexity = 8
    /\ plan.tasks[2].priority = "high" /\ plan.tasks[2].estimated_complexity = 1
    /\ next_task = 2

\* C15: after an interrupt no dispatch of a later iteration starts, and
\* when the interrupt ended the build inside a collaborator dispatch the
\* store holds the complete record of the iteration before (none in the
\* first iteration).
C15_Cancellation ==
    /\ (raised.who = "interrupt" /\ pc = "execute") => iteration = raised.iteration
    /\ pc = "interrupted_in_dispatch" =>
          IF iteration = 1
          THEN LoadProgress(progress_file).kind = "None"
          ELSE /\ LoadProgress(progress_file).kind = "record"
               /\ LoadProgress(progress_file).data.iteration = iteration - 1

\* C21: in an iteration whose test failed and whose repair gave no fix
\* above the threshold, the build does not fail (it goes on to persist),
\* and the component of the dispatched task is still incomplete at the end
\* of the iteration.
C21_RepairFailure ==
    (/\ pc \in {"save", "writing"}
     /\ test_results.passed = "false"
     /\ debug_result.message \in {"No clear errors to fix", "Could not generate fixes"})
    => /\ raised.who = "none"
       /\ ~Get(completion_status, plan.tasks[next_task].component_id)

\* C22: a collaborator is dispatched only from its own place in the
\* iteration: execute first, when no result of the iteration exists yet;
\* test after execute has returned, only with auto_test, and only once;
\* repair after a failed test, only with auto_fix_errors, and only once;
\* after execute comes test or the marking, after the test the repair or
\* the marking, and after the repair the marking.
C22_SingleShotDispatch ==
    [][/\ n_collab' # n_collab =>
            /\ n_collab' = n_collab + 1
            /\ pc \in {"execute", "test", "debug"}
            /\ pc = "execute" =>
                  /\ n_dispatch' = n_dispatch + 1
                  /\ n_dispatch = iteration - 1
                  /\ task_result = "none" /\ test_results = NoTest
                  /\ debug_result = NoDebug
            /\ pc = "test" =>
                  /\ config.auto_test
                  /\ n_dispatch' = n_dispatch /\ n_dispatch = iteration
                  /\ task_result # "none" /\ test_results = NoTest
                  /\ debug_result = NoDebug
            /\ pc = "debug" =>
                  /\ config.auto_test /\ config.auto_fix_errors
                  /\ n_dispatch' = n_dispatch /\ n_dispatch = iteration
                  /\ test_results.passed = "false"
                  /\ debug_result = NoDebug
       /\ (pc = "execute" /\ pc' # "done") =>
            pc' = IF config.auto_test THEN "test" ELSE "mark"
       /\ (pc = "test" /\ pc' # "done") =>
            pc' = IF test_results'.passed = "false" /\ config.auto_fix_errors
                  THEN "debug" ELSE "mark"
       /\ (pc \in {"debug", "analyze", "fix", "apply"} /\ pc' # "done") =>
            pc' \in {"analyze", "fix", "apply", "mark"}]_vars

\* execute, test and repair, each once, in the second iteration
C22_Witness ==
    /\ pc = "mark"
    /\ iteration = 2
    /\ n_dispatch = 2
    /\ test_results.passed = "false"
    /\ debug_result.fixed
    /\ n_collab \in 4..6

\* every error the scan of the output finds, in the order of the output
Candidates(output) ==
    IF HasErrorText(output) THEN ScanLines(output, 1, << >>, << >>) ELSE << >>

\* C23: one debug attempt considers the first 5 errors extracted from the
\* output, in order, and no more; it asks for a fix once per considered
\* error, in order, and keeps at most one fix per request, so at most 5
\* fixes are merged; an output with no extractable error gives fixed = false
\* and no fix is requested.
C23_ErrorLimit ==
    [][ /\ pc = "debug" =>
            /\ errors' = FirstN(Candidates(test_results.output), 5)
            /\ Len(errors') <= 5
            /\ errors' = << >> =>
                  /\ pc' = "mark"
                  /\ ~debug_result'.fixed
                  /\ llm_response' = NoResponse
            /\ errors' # << >> => pc' = "analyze" /\ err_idx' = 1 /\ fixes' = << >>
        /\ llm_response' \notin {llm_response, NoResponse} =>
            /\ pc = "analyze"
            /\ err_idx \in 1..Len(errors)
            /\ Len(fixes) < err_idx
            /\ err_idx' = err_idx /\ errors' = errors /\ pc' = "fix"
        /\ pc = "fix" =>
            /\ Len(fixes') <= Len(fixes) + 1
            /\ Len(fixes') <= err_idx
            /\ pc' = "analyze" => err_idx' = err_idx + 1 /\ errors' = errors
            /\ pc' # "analyze" => err_idx = Len(errors)
        /\ debug_result'.fixed =>
            /\ debug_result'.num_fixes = Len(fixes)
            /\ debug_result'.num_fixes \in 1..5
      ]_vars

\* five fixes were merged
C23_Witness ==
    /\ pc = "mark"
    /\ debug_result.fixed
    /\ debug_result.num_fixes = 5

\* what load_progress would read: the record the loop holds in memory
StoredIs(iter, stamp) ==
    IF iter = 0
    THEN progress_file = FileAbsent
    ELSE LoadProgress(progress_file) =
            [kind |-> "record",
             data |-> ProgressRecord(iter, completion_status, codebase, stamp)]

\* C24: an iteration that dispatches a task and raises nothing writes the
\* progress record once, as its last step, after the tracker update: the
\* write has not begun while the iteration dispatches and marks, and at the
\* start of the next iteration the stored record holds the iteration
\* number, the tracker and the artifact mapping as they are in memory, its
\* iteration being the number of dispatches so far; an iteration that stops
\* the loop writes nothing, so the record stays so until the build ends.
C24_RecordPerIteration ==
    /\ pc = "loop" =>
          /\ iteration = n_dispatch
          /\ now = iteration
          /\ StoredIs(iteration, now)
    /\ pc \in {"execute", "test", "debug", "analyze", "fix", "apply", "mark", "save"} =>
          /\ now = iteration - 1
          /\ progress_file.state \in {"absent", "complete"}
          /\ progress_file.state = "complete" =>
                JsonLoads(progress_file.data).iteration = iteration - 1
    /\ pc = "writing" => now = iteration
    /\ (pc \in {"return", "done"} /\ raised.who \in {"none", "finalize"}) =>
          /\ now = n_dispatch
          /\ StoredIs(n_dispatch, now)
          /\ iteration = IF exit_reason = "max_iterations"
                         THEN n_dispatch ELSE n_dispatch + 1

\* the second iteration has written its record and the loop stops on
\* its third
C24_Witness ==
    /\ pc = "return"
    /\ exit_reason \in {"all_complete", "no_task"}
    /\ iteration = 3
    /\ progress_file.state = "complete"
    /\ JsonLoads(progress_file.data).iteration = 2
    /\ \E c \in DOMAIN completion_status : completion_status[c]
    /\ codebase # EmptyMap

\* the component of the task at a position of the plan
ComponentOf(t) == plan.tasks[t].component_id

\* C25: a task executed with completed = true makes its component complete,
\* whatever other tasks the component has; a complete component stays
\* complete, and no task of a complete component is returned by the
\* scheduler or dispatched afterwards.
C25_AnyTaskCompletes ==
    [][ /\ (pc = "mark" /\ task_result = "true") =>
              /\ ComponentOf(next_task) \in DOMAIN completion_status'
              /\ completion_status'[ComponentOf(next_task)]
        /\ \A c \in DOMAIN completion_status :
              completion_status[c] =>
                 (c \in DOMAIN completion_status' /\ completion_status'[c])
        /\ (sched_prev' # sched_prev /\ sched_prev'.task # 0) =>
              /\ next_task' = sched_prev'.task
              /\ ~Get(completion_status, ComponentOf(next_task'))
        /\ n_dispatch' # n_dispatch =>
              ~Get(completion_status, ComponentOf(next_task))
      ]_vars

\* the component with two tasks is complete after one of them ran; its
\* other task was never dispatched
C25_Witness ==
    /\ plan = PlanTwoTasks
    /\ pc = "done"
    /\ exit_reason = "all_complete"
    /\ n_dispatch = 2
    /\ raised.who = "none"

\* the mapping after a merge of the returned files: every returned path at
\* the returned content, every other path as before, no path lost
MergedInto(before, files, after) ==
    /\ DOMAIN after = (DOMAIN before) \cup (DOMAIN files)
    /\ \A p \in DOMAIN files : after[p] = files[p]
    /\ \A p \in (DOMAIN before) \ (DOMAIN files) : after[p] = before[p]

\* C26: the artifact mapping only grows and the last writer wins: no step
\* removes a path; only the merge of an execution result and the merge of a
\* repair result change the mapping; each sets the returned paths to the
\* returned contents and leaves the other paths as they were, so a repair
\* overwrites what the execution of the same iteration wrote; of two
\* accepted fixes that name the same path the later one gives the content.
C26_LastWriterWins ==
    [][ /\ DOMAIN codebase \subseteq DOMAIN codebase'
        /\ codebase' # codebase => pc \in {"execute", "apply"}
        /\ (pc = "execute" /\ pc' # "done") =>
              \E files \in FileMaps : MergedInto(codebase, files, codebase')
        /\ (pc = "apply" /\ pc' # "done") =>
              /\ MergedInto(codebase, debug_result'.files, codebase')
              /\ DOMAIN debug_result'.files =
                    UNION { DOMAIN fixes[i].files : i \in DOMAIN fixes }
              /\ \A i \in DOMAIN fixes : \A p \in DOMAIN fixes[i].files :
                    \/ codebase'[p] = fixes[i].files[p]
                    \/ \E j \in DOMAIN fixes :
                          /\ j > i
                          /\ p \in DOMAIN fixes[j].files
                          /\ codebase'[p] = fixes[j].files[p]
        /\ pc \in {"return", "done"} => codebase' = codebase
      ]_vars

\* two accepted fixes were merged, the later one names a path and the
\* mapping holds its content; the path no one returned kept its content
C26_Witness ==
    /\ pc = "mark"
    /\ debug_result.fixed
    /\ debug_result.num_fixes = 2
    /\ llm_response.kind = "fix"
    /\ llm_response.confidence = 9
    /\ llm_response.files = [p \in {"p1"} |-> 2]
    /\ codebase = [p \in {"p1", "p2"} |-> 2]

\* every entry of the tracker is true; so for a tracker without entries
EveryEntryTrue == \A c \in DOMAIN completion_status : completion_status[c]

\* C27: at the start of an iteration within the budget, a tracker whose
\* entries are all true (also one without entries) stops the loop before
\* the scheduler or a collaborator is called; otherwise the scheduler is
\* called, and when it returns None the loop stops before a collaborator is
\* dispatched; once the loop has stopped no collaborator is dispatched, the
\* scheduler is not called and no progress record is written.
C27_TerminalChecksFirst ==
    [][ /\ (pc = "loop" /\ iteration < config.max_iterations /\ EveryEntryTrue) =>
              /\ pc' = "return"
              /\ exit_reason' = "all_complete"
              /\ sched_prev' = sched_prev
              /\ n_collab' = n_collab /\ n_dispatch' = n_dispatch
              /\ progress_file' = progress_file
        /\ (pc = "loop" /\ iteration < config.max_iterations /\ ~EveryEntryTrue) =>
              /\ sched_prev'.called
              /\ sched_prev'.status = completion_status
              /\ sched_prev'.task = GetNextTask(plan, completion_status)
              /\ n_collab' = n_collab /\ n_dispatch' = n_dispatch
              /\ progress_file' = progress_file
              /\ sched_prev'.task = 0 =>
                    pc' = "return" /\ exit_reason' = "no_task"
              /\ sched_prev'.task # 0 =>
                    pc' = "execute" /\ exit_reason' = "none"
        /\ pc \in {"return", "done"} =>
              /\ n_collab' = n_collab /\ n_dispatch' = n_dispatch
              /\ sched_prev' = sched_prev
              /\ progress_file' = progress_file /\ now' = now
        /\ n_collab' # n_collab => exit_reason = "none"
      ]_vars

\* a plan without components: the build ended on the all-complete stop and
\* neither the scheduler nor a collaborator was called
C27_Witness ==
    /\ plan = PlanEmpty
    /\ pc = "done"
    /\ exit_reason = "all_complete"
    /\ ~sched_prev.called
    /\ n_collab = 0
    /\ progress_file = FileAbsent

\* C28: an execution result whose completed entry is false or missing leaves
\* the tracker as it was when the task was selected; when nothing raises and
\* the budget allows another iteration, that iteration selects and
\* dispatches the same task again, whatever other tasks could run.
C28_Reselection ==
    [][ /\ (pc \in {"test", "debug", "analyze", "fix", "apply", "mark", "save", "writing"}
            /\ task_result \in {"false", "missing"}) =>
              /\ completion_status = sched_prev.status
              /\ completion_status' = completion_status
        /\ (pc = "loop" /\ iteration >= 1 /\ task_result \in {"false", "missing"}
            /\ iteration < config.max_iterations) =>
              /\ completion_status = sched_prev.status
              /\ sched_prev.task = next_task
              /\ next_task # 0
              /\ next_task' = next_task
              /\ pc' = "execute"
        /\ (pc = "loop" /\ iteration >= 1 /\ task_result \in {"false", "missing"}
            /\ iteration >= config.max_iterations) =>
              exit_reason' = "max_iterations"
      ]_vars

\* three iterations dispatched the same task, which never reported
\* completed = true, while another task could have run; the budget ended
\* the loop
C28_Witness ==
    /\ plan = PlanIndep2
    /\ pc = "done"
    /\ exit_reason = "max_iterations"
    /\ iteration = 3
    /\ n_dispatch = 3
    /\ next_task = 1
    /\ task_result = "missing"
    /\ \A c \in DOMAIN completion_status : ~completion_status[c]
    /\ raised.who = "none"

\* C29: in every state of the build loop the keys of the completion tracker
\* are the component ids of the plan it was initialised from; marking a
\* task complete adds no key, also when the component_id of the task names
\* no component of the plan.
C29_TrackerDomain ==
    DOMAIN completion_status = Range(plan.components)

\* the components of the plan that no task belongs to
Unreferenced ==
    { c \in Range(plan.components) :
        \A i \in DOMAIN plan.tasks : plan.tasks[i].component_id # c }

\* some entry of the tracker is false, and the component of every task of
\* the plan is true in the tracker
OnlyTasklessLeft ==
    /\ \E c \in DOMAIN completion_status : ~completion_status[c]
    /\ \A i \in DOMAIN plan.tasks :
          Get(completion_status, plan.tasks[i].component_id)

\* C30: the loop stops with "no more tasks" exactly when an iteration within
\* the budget starts with some tracker entry false and the component of
\* every task true in the tracker; a component no task belongs to is never
\* marked complete, so a plan with such a component never reaches the
\* all-complete stop: its run ends with no more tasks, with the budget used
\* up, or with an exception.
C30_NoMoreTasks ==
    [][ /\ (pc = "loop" /\ iteration < config.max_iterations) =>
              (exit_reason' = "no_task" <=> OnlyTasklessLeft)
        /\ (pc = "loop" /\ iteration >= config.max_iterations) =>
              exit_reason' = "max_iterations"
        /\ exit_reason' # exit_reason => pc = "loop" /\ exit_reason = "none"
        /\ \A c \in Unreferenced :
              c \in DOMAIN completion_status' /\ ~completion_status'[c]
        /\ Unreferenced # {} => exit_reason' # "all_complete"
      ]_vars

\* the only task of the plan is done, two components without a task are
\* left: the loop stopped with no more tasks within the budget
C30_Witness ==
    /\ plan = PlanNoTask
    /\ pc = "done"
    /\ exit_reason = "no_task"
    /\ iteration = 2
    /\ config.max_iterations = 3
    /\ completion_status = [c \in {"c1", "c2", "c3"} |-> c = "c1"]
    /\ raised.who = "none"

====
